---- MODULE Spec2Model ----
(***************************************************************************)
(* State-machine model of the NailTryOn component                          *)
(* (src/components/nail-try-on.tsx): the React state fields, the pending   *)
(* asynchronous work (file readers, image decodes, camera requests, the    *)
(* capture modal), the single MediaPipe Hands instance with its one        *)
(* registered onResults handler, and the requests sent to it.              *)
(***************************************************************************)
EXTENDS Integers, Sequences, FiniteSets, TLC

VARIABLES
    postImage,          \* useState: data URL of the design image, or Null
    userImage,          \* useState: data URL of the hand photo, or Null
    processedImage,     \* useState: encoded result canvas, or NoImage
    extractedDesigns,   \* useState: array of ExtractedNailDesign
    isLoading,          \* useState
    currentStep,        \* useState: "upload" | "extract" | "capture" | "apply"
    error,              \* useState: message tag, or Null
    statusMessage,      \* useState: [msg, n]
    handsModel,         \* useState: TRUE once a Hands instance is stored
    isMediaPipeLoaded,  \* useState
    isInitialized,      \* useState
    processingProgress, \* useState
    progressTimer,      \* a setTimeout(() => setProcessingProgress(0)) is pending
    pending,            \* asynchronous callbacks not yet run
    modals,             \* camera modals on screen, topmost last
    onResults,          \* the handler registered on the Hands instance
    inflight,           \* requests sent to the Hands instance, oldest first
    call,               \* a function of the component applied on its own: [fn, args]
    value               \* what that application returned

vars == <<postImage, userImage, processedImage, extractedDesigns, isLoading,
          currentStep, error, statusMessage, handsModel, isMediaPipeLoaded,
          isInitialized, processingProgress, progressTimer, pending, modals,
          onResults, inflight, call, value>>

uiVars == <<postImage, userImage, processedImage, extractedDesigns, isLoading,
            currentStep, error, statusMessage, processingProgress, progressTimer>>

loaderVars == <<handsModel, isMediaPipeLoaded, isInitialized>>

\* The component's own state, and the record of a function applied on its own.
componentVars == <<uiVars, loaderVars, pending, modals, onResults, inflight>>
fnVars == <<call, value>>

(***************************************************************************)
(* Bounds of the model.                                                    *)
(***************************************************************************)
MaxInFlight == 2   \* requests outstanding on the detector at once
MaxPending  == 1   \* asynchronous callbacks outstanding at once
MaxCameras  == 1   \* camera requests and modals outstanding at once

(***************************************************************************)
(* Program constants.                                                      *)
(***************************************************************************)
MaxFileSize  == 10485760   \* 10 * 1024 * 1024
minWidth     == 300
MinNailLength == 20

Null == "null"

\* Object.entries(FINGER_LANDMARKS), lower-cased as extraction names them.
FINGER_LANDMARKS == <<"thumb", "index", "middle", "ring", "pinky">>
Fingers == {FINGER_LANDMARKS[i] : i \in 1..Len(FINGER_LANDMARKS)}

NoImage == [base |-> Null, drawn |-> {}]

\* setError(text): the texts are not told apart, every one of them is the
\* value Reported.
Reported == "error"
Err(text) == Reported

Msg(m) == [msg |-> m, n |-> 0]
MsgN(m, k) == [msg |-> m, n |-> k]

(***************************************************************************)
(* Inputs.                                                                 *)
(***************************************************************************)
PostFiles == {[name |-> "p1", size |-> MaxFileSize,     dim |-> minWidth],
              [name |-> "p2", size |-> MaxFileSize + 1, dim |-> minWidth],
              [name |-> "p3", size |-> 1,               dim |-> minWidth - 1]}
UserFiles == {[name |-> "u1", size |-> MaxFileSize,     dim |-> minWidth],
              [name |-> "u2", size |-> MaxFileSize + 1, dim |-> minWidth]}
CameraFrames == {"c1"}
FileNamed(n) == CHOOSE f \in PostFiles \cup UserFiles : f.name = n

\* What the detector reports for one finger: Missing when one of its tip,
\* base or mid landmarks is absent, otherwise the tip-base pixel distance.
Missing == -1
NailLengths == {MinNailLength - 1, MinNailLength}
FingerReports == {Missing} \cup NailLengths

\* The hands the detector may report: every finger at the floor length,
\* but for one finger that may be anything.
HandReports ==
    {[g \in Fingers |-> IF g = f THEN r ELSE MinNailLength] :
        f \in Fingers, r \in FingerReports}

NoHand == [hands |-> 0, hand |-> [f \in Fingers |-> Missing]]
HandsResults == {NoHand} \cup {[hands |-> 1, hand |-> h] : h \in HandReports}

NoHandler == [kind |-> "none", image |-> Null, designs |-> <<>>]

NoCall == [fn |-> "none", args |-> <<>>]


\* An asynchronous callback waiting to run, with what its closure captured.
Task(k, img, ds, hm) == [kind |-> k, image |-> img, designs |-> ds, hm |-> hm]

RemoveAt(s, i) == SubSeq(s, 1, i - 1) \o SubSeq(s, i + 1, Len(s))

CountKind(k) == Cardinality({i \in 1..Len(pending) : pending[i].kind = k})

\* The capture modal is a fixed full-window overlay above the page, so the
\* page's own controls are reachable only while no modal is shown.
PageReachable == modals = <<>>

Init ==
    /\ postImage = Null
    /\ userImage = Null
    /\ processedImage = NoImage
    /\ extractedDesigns = <<>>
    /\ isLoading = FALSE
    /\ currentStep = "upload"
    /\ error = Null
    /\ statusMessage = Msg("Upload a nail design image to start.")
    /\ handsModel = FALSE
    /\ isMediaPipeLoaded = FALSE
    /\ isInitialized = FALSE
    /\ processingProgress = 0
    /\ progressTimer = FALSE
    /\ pending = <<>>
    /\ modals = <<>>
    /\ onResults = NoHandler
    /\ inflight = <<>>
    /\ call = NoCall
    /\ value = Null

(***************************************************************************)
(* Loading the detector.                                                   *)
(***************************************************************************)
\* initializeHands: stores the instance, or reports the failure.
initializeHands(ok) ==
    IF ok
    THEN /\ handsModel' = TRUE
         /\ statusMessage' = Msg("MediaPipe loaded successfully!")
         /\ error' = error
    ELSE /\ handsModel' = handsModel
         /\ statusMessage' = statusMessage
         /\ error' = Err("Failed to initialize hand detection.")

\* loadMediaPipeHands, run by the mount effect.
loadMediaPipeHands ==
    /\ UNCHANGED fnVars
    /\ ~isInitialized
    /\ isInitialized' = TRUE
    /\ \/ \* window.Hands is already there
          /\ \E ok \in BOOLEAN : initializeHands(ok)
          /\ processingProgress' = 100
          /\ progressTimer' = TRUE
          /\ pending' = pending
       \/ \* the script has to be fetched
          /\ processingProgress' = 10
          /\ pending' = Append(pending, Task("script", Null, <<>>, FALSE))
          /\ UNCHANGED <<handsModel, statusMessage, error, progressTimer>>
    /\ UNCHANGED <<postImage, userImage, processedImage, extractedDesigns,
                   isLoading, currentStep, isMediaPipeLoaded, modals,
                   onResults, inflight>>

\* script.onload: the drawing utilities are fetched next.
ScriptOnload(i) ==
    /\ UNCHANGED fnVars
    /\ pending[i].kind = "script"
    /\ processingProgress' = 40
    /\ pending' = Append(RemoveAt(pending, i), Task("drawingUtils", Null, <<>>, FALSE))
    /\ UNCHANGED <<postImage, userImage, processedImage, extractedDesigns,
                   isLoading, currentStep, error, statusMessage, progressTimer,
                   loaderVars, modals, onResults, inflight>>

\* script.onerror and drawingUtilsScript.onerror.
ScriptOnerror(i) ==
    /\ UNCHANGED fnVars
    /\ pending[i].kind \in {"script", "drawingUtils"}
    /\ error' = IF pending[i].kind = "script"
                THEN Err("Failed to load MediaPipe Hands.")
                ELSE Err("Failed to load MediaPipe drawing utilities.")
    /\ processingProgress' = 0
    /\ pending' = RemoveAt(pending, i)
    /\ UNCHANGED <<postImage, userImage, processedImage, extractedDesigns,
                   isLoading, currentStep, statusMessage, progressTimer,
                   loaderVars, modals, onResults, inflight>>

\* drawingUtilsScript.onload.
DrawingUtilsOnload(i) ==
    /\ UNCHANGED fnVars
    /\ pending[i].kind = "drawingUtils"
    /\ isMediaPipeLoaded' = TRUE
    /\ \E ok \in BOOLEAN : initializeHands(ok)
    /\ processingProgress' = 100
    /\ progressTimer' = TRUE
    /\ pending' = RemoveAt(pending, i)
    /\ UNCHANGED <<postImage, userImage, processedImage, extractedDesigns,
                   isLoading, currentStep, isInitialized, modals, onResults,
                   inflight>>

\* setTimeout(() => setProcessingProgress(0), 1000); several timers may be
\* pending, so another one may remain after this one.
ProgressTimeout ==
    /\ UNCHANGED fnVars
    /\ progressTimer
    /\ processingProgress' = 0
    /\ progressTimer' \in BOOLEAN
    /\ UNCHANGED <<postImage, userImage, processedImage, extractedDesigns,
                   isLoading, currentStep, error, statusMessage, loaderVars,
                   pending, modals, onResults, inflight>>

(***************************************************************************)
(* Uploading the design image.                                             *)
(***************************************************************************)
\* handlePostImageUpload: the file input of step 1.
\* handlePostImageUpload rejecting with 'file.size >= 10 * 1024 * 1024'.
handlePostImageUploadInclusive(file) ==
    /\ UNCHANGED fnVars
    /\ currentStep = "upload"
    /\ PageReachable
    /\ IF file.size >= MaxFileSize
       THEN /\ error' = Err("File size too large.")
            /\ pending' = pending
       ELSE /\ Len(pending) < MaxPending
            /\ error' = error
            /\ pending' = Append(pending, Task("postRead", file.name, <<>>, FALSE))
    /\ UNCHANGED <<postImage, userImage, processedImage, extractedDesigns,
                   isLoading, currentStep, statusMessage, processingProgress,
                   progressTimer, loaderVars, modals, onResults, inflight>>

handlePostImageUpload(file) ==
    /\ UNCHANGED fnVars
    /\ currentStep = "upload"
    /\ PageReachable
    /\ IF file.size > MaxFileSize
       THEN /\ error' = Err("File size too large.")
            /\ pending' = pending
       ELSE /\ Len(pending) < MaxPending
            /\ error' = error
            /\ pending' = Append(pending, Task("postRead", file.name, <<>>, FALSE))
    /\ UNCHANGED <<postImage, userImage, processedImage, extractedDesigns,
                   isLoading, currentStep, statusMessage, processingProgress,
                   progressTimer, loaderVars, modals, onResults, inflight>>

\* reader.onload of handlePostImageUpload: the image is decoded next.
PostReaderOnload(i) ==
    /\ UNCHANGED fnVars
    /\ pending[i].kind = "postRead"
    /\ pending' = Append(RemoveAt(pending, i),
                         Task("postDecode", pending[i].image, <<>>, FALSE))
    /\ UNCHANGED <<uiVars, loaderVars, modals, onResults, inflight>>

\* img.onload of handlePostImageUpload, with validateImageQuality.
PostImgOnload(i) ==
    /\ UNCHANGED fnVars
    /\ pending[i].kind = "postDecode"
    /\ IF FileNamed(pending[i].image).dim < minWidth
       THEN /\ error' = Err("Image too small.")
            /\ UNCHANGED <<postImage, statusMessage>>
       ELSE /\ postImage' = pending[i].image
            /\ error' = Null
            /\ statusMessage' = Msg("Image uploaded!")
    /\ pending' = RemoveAt(pending, i)
    /\ UNCHANGED <<userImage, processedImage, extractedDesigns, isLoading,
                   currentStep, processingProgress, progressTimer, loaderVars,
                   modals, onResults, inflight>>

\* reader.onerror and img.onerror of handlePostImageUpload.
PostUploadOnerror(i) ==
    /\ UNCHANGED fnVars
    /\ pending[i].kind \in {"postRead", "postDecode"}
    /\ error' = IF pending[i].kind = "postRead"
                THEN Err("Failed to read the selected file.")
                ELSE Err("Failed to load image.")
    /\ pending' = RemoveAt(pending, i)
    /\ UNCHANGED <<postImage, userImage, processedImage, extractedDesigns,
                   isLoading, currentStep, statusMessage, processingProgress,
                   progressTimer, loaderVars, modals, onResults, inflight>>


(***************************************************************************)
(* Extraction.                                                             *)
(***************************************************************************)
\* extractNailDesigns: the 'Extract Nail Designs' button of step 1, rendered
\* when postImage is set and disabled while isLoading or without handsModel.
extractNailDesigns ==
    /\ UNCHANGED fnVars
    /\ currentStep = "upload"
    /\ PageReachable
    /\ postImage # Null
    /\ ~(isLoading \/ ~handsModel)
    /\ Len(pending) < MaxPending
    /\ isLoading' = TRUE
    /\ statusMessage' = Msg("Analyzing hand and extracting nail designs...")
    /\ processingProgress' = 10
    /\ pending' = Append(pending, Task("extractLoad", postImage, <<>>, handsModel))
    /\ UNCHANGED <<postImage, userImage, processedImage, extractedDesigns,
                   currentStep, error, progressTimer, loaderVars, modals,
                   onResults, inflight>>

\* handsModel.send: the request joins those the detector is working on, or
\* the call throws.
Send(img, ok) ==
    IF ok THEN Append(inflight, [image |-> img, beforeReset |-> FALSE])
          ELSE inflight

\* image.onload of extractNailDesigns: registers the extraction handler and
\* sends the canvas; a missing 2d context or a throwing send ends the pass.
ExtractImageOnload(i) ==
    /\ UNCHANGED fnVars
    /\ pending[i].kind = "extractLoad"
    /\ Len(inflight) < MaxInFlight
    /\ pending' = RemoveAt(pending, i)
    /\ \E ctx \in BOOLEAN, sendOk \in BOOLEAN :
         IF ~ctx
         THEN /\ error' = Err("Could not get canvas context.")
              /\ isLoading' = FALSE
              /\ processingProgress' = 0
              /\ UNCHANGED <<onResults, inflight>>
         ELSE /\ onResults' = [kind |-> "extract", image |-> pending[i].image,
                               designs |-> <<>>]
              /\ inflight' = Send(pending[i].image, sendOk)
              /\ IF sendOk
                 THEN /\ processingProgress' = 50
                      /\ UNCHANGED <<error, isLoading>>
                 ELSE /\ error' = Err("Error processing hand detection.")
                      /\ isLoading' = FALSE
                      /\ processingProgress' = 0
    /\ UNCHANGED <<postImage, userImage, processedImage, extractedDesigns,
                   currentStep, statusMessage, progressTimer, loaderVars, modals>>

\* image.onerror of extractNailDesigns and of applyDesignsToUserHand.
PassImageOnerror(i) ==
    /\ UNCHANGED fnVars
    /\ pending[i].kind \in {"extractLoad", "applyLoad"}
    /\ error' = IF pending[i].kind = "extractLoad"
                THEN Err("Failed to load the uploaded image.")
                ELSE Err("Failed to load user image for processing.")
    /\ isLoading' = FALSE
    /\ processingProgress' = 0
    /\ pending' = RemoveAt(pending, i)
    /\ UNCHANGED <<postImage, userImage, processedImage, extractedDesigns,
                   currentStep, statusMessage, progressTimer, loaderVars, modals,
                   onResults, inflight>>

\* nailWidth = nailLength * 0.8, in whole pixels.
nailWidth(nailLength) == (nailLength * 8) \div 10

\* extractSingleNailDesign handing back two entries for the finger.
extractSingleNailDesignTwice(fingerId, nailLength) ==
    IF nailLength < MinNailLength
    THEN <<>>
    ELSE <<[fingerId |-> fingerId, width |-> nailWidth(nailLength),
            height |-> nailLength],
           [fingerId |-> fingerId, width |-> nailWidth(nailLength),
            height |-> nailLength]>>

\* extractSingleNailDesign: a design for the finger, or none when the nail
\* is shorter than the floor.
extractSingleNailDesign(fingerId, nailLength) ==
    IF nailLength < MinNailLength
    THEN <<>>
    ELSE <<[fingerId |-> fingerId, width |-> nailWidth(nailLength),
            height |-> nailLength]>>

\* processHandLandmarks: the designs of the first hand, in the order of
\* FINGER_LANDMARKS, skipping fingers without tip, base and mid.
RECURSIVE DesignsFrom(_, _)
DesignsFrom(hand, i) ==
    IF i > Len(FINGER_LANDMARKS) THEN <<>>
    ELSE (IF hand[FINGER_LANDMARKS[i]] = Missing
          THEN <<>>
          ELSE extractSingleNailDesign(FINGER_LANDMARKS[i], hand[FINGER_LANDMARKS[i]]))
         \o DesignsFrom(hand, i + 1)

\* processHandLandmarks giving up on the whole hand when a finger lacks a
\* landmark.
processHandLandmarksAllOrNothing(results) ==
    IF \E f \in Fingers : results.hand[f] = Missing
    THEN <<>>
    ELSE DesignsFrom(results.hand, 1)

processHandLandmarks(results) == DesignsFrom(results.hand, 1)

\* The handler registered by extractNailDesigns, showing the extracted
\* designs first: setCurrentStep("extract") on success.
OnExtractResultsShowingDesigns(results) ==
    /\ IF results.hands = 0
       THEN /\ error' = Err("Error extracting nail designs.")
            /\ processingProgress' = 0
            /\ UNCHANGED <<extractedDesigns, currentStep, statusMessage, progressTimer>>
       ELSE LET designs == processHandLandmarks(results) IN
            IF Len(designs) > 0
            THEN /\ extractedDesigns' = designs
                 /\ currentStep' = "extract"
                 /\ statusMessage' = MsgN("Successfully extracted nail designs!", Len(designs))
                 /\ processingProgress' = 100
                 /\ progressTimer' = TRUE
                 /\ error' = error
            ELSE /\ error' = Err("Could not extract any nail designs.")
                 /\ processingProgress' = 0
                 /\ UNCHANGED <<extractedDesigns, currentStep, statusMessage, progressTimer>>
    /\ isLoading' = FALSE
    /\ UNCHANGED <<postImage, userImage, processedImage>>

\* The handler registered by extractNailDesigns.
OnExtractResults(results) ==
    /\ IF results.hands = 0
       THEN \* processHandLandmarks throws
            /\ error' = Err("Error extracting nail designs.")
            /\ processingProgress' = 0
            /\ UNCHANGED <<extractedDesigns, currentStep, statusMessage, progressTimer>>
       ELSE LET designs == processHandLandmarks(results) IN
            IF Len(designs) > 0
            THEN /\ extractedDesigns' = designs
                 /\ currentStep' = "capture"
                 /\ statusMessage' = MsgN("Successfully extracted nail designs!", Len(designs))
                 /\ processingProgress' = 100
                 /\ progressTimer' = TRUE
                 /\ error' = error
            ELSE /\ error' = Err("Could not extract any nail designs.")
                 /\ processingProgress' = 0
                 /\ UNCHANGED <<extractedDesigns, currentStep, statusMessage, progressTimer>>
    /\ isLoading' = FALSE
    /\ UNCHANGED <<postImage, userImage, processedImage>>


(***************************************************************************)
(* Applying the designs to the user's hand.                                *)
(***************************************************************************)
\* applyDesignsToUserHand without its guard on handsModel and extractedDesigns.
applyDesignsToUserHandUnguarded(imageDataUrl, hm, designs, queue) ==
    /\ error' = Null
    /\ isLoading' = TRUE
    /\ processingProgress' = 10
    /\ pending' = Append(queue, Task("applyLoad", imageDataUrl, designs, hm))

\* applyDesignsToUserHand as the closure (hm, designs) that calls it sees it;
\* queue is the pending work the new image decode joins.
applyDesignsToUserHand(imageDataUrl, hm, designs, queue) ==
    IF ~hm \/ Len(designs) = 0
    THEN /\ error' = Err("No designs extracted or MediaPipe not ready.")
         /\ isLoading' = FALSE
         /\ processingProgress' = processingProgress
         /\ pending' = queue
    ELSE /\ error' = Null   \* as the caller's setError(null) left it
         /\ isLoading' = TRUE
         /\ processingProgress' = 10
         /\ pending' = Append(queue, Task("applyLoad", imageDataUrl, designs, hm))

\* handleUserImageUpload: the file input of step 3.
handleUserImageUpload(file) ==
    /\ UNCHANGED fnVars
    /\ currentStep = "capture"
    /\ PageReachable
    /\ IF file.size > MaxFileSize
       THEN /\ error' = Err("File size too large.")
            /\ pending' = pending
       ELSE /\ Len(pending) < MaxPending
            /\ error' = error
            /\ pending' = Append(pending, Task("userRead", file.name, <<>>, FALSE))
    /\ UNCHANGED <<postImage, userImage, processedImage, extractedDesigns,
                   isLoading, currentStep, statusMessage, processingProgress,
                   progressTimer, loaderVars, modals, onResults, inflight>>

\* The handsModel and extractedDesigns that handleUserImageUpload's
\* applyDesignsToUserHand sees: the callback is memoised with no
\* dependencies, so they are those of the first render.
UploadClosureHandsModel == FALSE
UploadClosureDesigns == <<>>

\* reader.onload of handleUserImageUpload.
UserReaderOnload(i) ==
    /\ UNCHANGED fnVars
    /\ pending[i].kind = "userRead"
    /\ userImage' = pending[i].image
    /\ processedImage' = NoImage
    /\ statusMessage' = Msg("Processing your image...")
    /\ applyDesignsToUserHand(pending[i].image, UploadClosureHandsModel,
                              UploadClosureDesigns, RemoveAt(pending, i))
    /\ UNCHANGED <<postImage, extractedDesigns, currentStep, progressTimer,
                   loaderVars, modals, onResults, inflight>>

\* reader.onerror of handleUserImageUpload.
UserReaderOnerror(i) ==
    /\ UNCHANGED fnVars
    /\ pending[i].kind = "userRead"
    /\ error' = Err("Failed to read the selected file.")
    /\ pending' = RemoveAt(pending, i)
    /\ UNCHANGED <<postImage, userImage, processedImage, extractedDesigns,
                   isLoading, currentStep, statusMessage, processingProgress,
                   progressTimer, loaderVars, modals, onResults, inflight>>

\* handleCameraCapture: the 'Use Camera' button of step 3; the modal it
\* will open keeps the applyDesignsToUserHand of this render.
handleCameraCapture ==
    /\ UNCHANGED fnVars
    /\ currentStep = "capture"
    /\ PageReachable
    /\ \/ \* navigator.mediaDevices.getUserMedia is missing
          /\ error' = Err("Camera access is not supported in your browser.")
          /\ pending' = pending
       \/ /\ Len(pending) < MaxPending
          /\ CountKind("camera") + Len(modals) < MaxCameras
          /\ error' = error
          /\ pending' = Append(pending, Task("camera", Null, extractedDesigns, handsModel))
    /\ UNCHANGED <<postImage, userImage, processedImage, extractedDesigns,
                   isLoading, currentStep, statusMessage, processingProgress,
                   progressTimer, loaderVars, modals, onResults, inflight>>

\* getUserMedia(...).then: the modal is shown.
CameraGranted(i) ==
    /\ UNCHANGED fnVars
    /\ pending[i].kind = "camera"
    /\ modals' = Append(modals, [designs |-> pending[i].designs, hm |-> pending[i].hm])
    /\ pending' = RemoveAt(pending, i)
    /\ UNCHANGED <<uiVars, loaderVars, onResults, inflight>>

\* getUserMedia(...).catch.
CameraDenied(i) ==
    /\ UNCHANGED fnVars
    /\ pending[i].kind = "camera"
    /\ error' = Err("Failed to access camera.")
    /\ pending' = RemoveAt(pending, i)
    /\ UNCHANGED <<postImage, userImage, processedImage, extractedDesigns,
                   isLoading, currentStep, statusMessage, processingProgress,
                   progressTimer, loaderVars, modals, onResults, inflight>>

\* captureBtn.onclick of the topmost modal.
TakePhoto(frame) ==
    /\ UNCHANGED fnVars
    /\ modals # <<>>
    /\ Len(pending) < MaxPending
    /\ modals' = SubSeq(modals, 1, Len(modals) - 1)
    /\ userImage' = frame
    /\ processedImage' = NoImage
    /\ statusMessage' = Msg("Processing your image...")
    /\ applyDesignsToUserHand(frame, modals[Len(modals)].hm,
                              modals[Len(modals)].designs, pending)
    /\ UNCHANGED <<postImage, extractedDesigns, currentStep, progressTimer,
                   loaderVars, onResults, inflight>>

\* cancelBtn.onclick of the topmost modal.
CancelPhoto ==
    /\ UNCHANGED fnVars
    /\ modals # <<>>
    /\ modals' = SubSeq(modals, 1, Len(modals) - 1)
    /\ UNCHANGED <<uiVars, loaderVars, pending, onResults, inflight>>

\* image.onload of applyDesignsToUserHand: registers the apply handler and
\* sends the canvas.
ApplyImageOnload(i) ==
    /\ UNCHANGED fnVars
    /\ pending[i].kind = "applyLoad"
    /\ Len(inflight) < MaxInFlight
    /\ pending' = RemoveAt(pending, i)
    /\ \E ctx \in BOOLEAN, sendOk \in BOOLEAN :
         IF ~ctx
         THEN /\ error' = Err("Could not get canvas context.")
              /\ isLoading' = FALSE
              /\ processingProgress' = 0
              /\ UNCHANGED <<onResults, inflight>>
         ELSE /\ onResults' = [kind |-> "apply", image |-> pending[i].image,
                               designs |-> pending[i].designs]
              /\ inflight' = Send(pending[i].image, sendOk)
              /\ IF sendOk
                 THEN /\ processingProgress' = 50
                      /\ UNCHANGED <<error, isLoading>>
                 ELSE /\ error' = Err("Error processing hand detection.")
                      /\ isLoading' = FALSE
                      /\ processingProgress' = 0
    /\ UNCHANGED <<postImage, userImage, processedImage, extractedDesigns,
                   currentStep, statusMessage, progressTimer, loaderVars, modals>>

\* The loop of applyDesignsToDetectedHand: the finger at position index of
\* FINGER_LANDMARKS is drawn on, with extractedDesigns[index], when its
\* three landmarks are present and that array entry exists.
DrawnOn(hand, designs) ==
    {[finger |-> FINGER_LANDMARKS[index], design |-> designs[index].fingerId] :
        index \in {k \in 1..Len(FINGER_LANDMARKS) :
                      /\ hand[FINGER_LANDMARKS[k]] # Missing
                      /\ k <= Len(designs)}}

\* applyDesignsToDetectedHand drawing over the result canvas as the apply
\* before left it, without the clearRect and drawImage of lines 646-647.
applyDesignsToDetectedHandDrawingOver(results, originalImage, designs, ctx) ==
    /\ IF ~ctx
       THEN /\ error' = Err("Could not get result canvas context.")
            /\ UNCHANGED <<processedImage, currentStep, statusMessage>>
       ELSE /\ error' = error
            /\ IF results.hands > 0
               THEN LET drawn == DrawnOn(results.hand, designs)
                        designsApplied == Cardinality(drawn) IN
                    /\ statusMessage' =
                         IF designsApplied > 0
                         THEN MsgN("Successfully applied nail designs!", designsApplied)
                         ELSE Msg("Could not apply designs.")
                    /\ processedImage' = [base |-> originalImage,
                                          drawn |-> processedImage.drawn \cup drawn]
                    /\ currentStep' = "apply"
               ELSE /\ statusMessage' = Msg("No hand detected in your image.")
                    /\ processedImage' = [base |-> originalImage,
                                          drawn |-> processedImage.drawn]
                    /\ currentStep' = currentStep
    /\ isLoading' = FALSE

\* applyDesignsToDetectedHand with the extractedDesigns of its closure.
applyDesignsToDetectedHand(results, originalImage, designs, ctx) ==
    /\ IF ~ctx
       THEN /\ error' = Err("Could not get result canvas context.")
            /\ UNCHANGED <<processedImage, currentStep, statusMessage>>
       ELSE /\ error' = error
            /\ IF results.hands > 0
               THEN LET drawn == DrawnOn(results.hand, designs)
                        designsApplied == Cardinality(drawn) IN
                    /\ statusMessage' =
                         IF designsApplied > 0
                         THEN MsgN("Successfully applied nail designs!", designsApplied)
                         ELSE Msg("Could not apply designs.")
                    /\ processedImage' = [base |-> originalImage, drawn |-> drawn]
                    /\ currentStep' = "apply"
               ELSE /\ statusMessage' = Msg("No hand detected in your image.")
                    /\ processedImage' = [base |-> originalImage, drawn |-> {}]
                    /\ currentStep' = currentStep
    /\ isLoading' = FALSE

\* The handler registered by applyDesignsToUserHand, using the designs up:
\* it empties extractedDesigns once they are drawn.
OnApplyResultsConsuming(results, image, designs) ==
    /\ \E ctx \in BOOLEAN : applyDesignsToDetectedHand(results, image, designs, ctx)
    /\ processingProgress' = 100
    /\ progressTimer' = TRUE
    /\ extractedDesigns' = <<>>
    /\ UNCHANGED <<postImage, userImage>>

\* The handler registered by applyDesignsToUserHand.
OnApplyResults(results, image, designs) ==
    /\ \E ctx \in BOOLEAN : applyDesignsToDetectedHand(results, image, designs, ctx)
    /\ processingProgress' = 100
    /\ progressTimer' = TRUE
    /\ UNCHANGED <<postImage, userImage, extractedDesigns>>

(***************************************************************************)
(* The detector.                                                           *)
(***************************************************************************)
\* The detector finishes its oldest request and calls the handler that is
\* registered at that moment.
DetectorResult(results) ==
    /\ UNCHANGED fnVars
    /\ inflight # <<>>
    /\ inflight' = Tail(inflight)
    /\ IF onResults.kind = "extract"
       THEN OnExtractResults(results)
       ELSE OnApplyResults(results, onResults.image, onResults.designs)
    /\ UNCHANGED <<loaderVars, pending, modals, onResults>>

\* The awaited send settles without the handler having been called: the
\* detector never reports on this request.
DetectorSilent ==
    /\ UNCHANGED fnVars
    /\ inflight # <<>>
    /\ inflight' = Tail(inflight)
    /\ UNCHANGED <<uiVars, loaderVars, pending, modals, onResults>>

(***************************************************************************)
(* Reset.                                                                  *)
(***************************************************************************)
\* handleReset without its setProcessingProgress(0).
handleResetKeepingProgress ==
    /\ UNCHANGED fnVars
    /\ currentStep = "apply"
    /\ processedImage # NoImage
    /\ PageReachable
    /\ postImage' = Null
    /\ userImage' = Null
    /\ processedImage' = NoImage
    /\ extractedDesigns' = <<>>
    /\ currentStep' = "upload"
    /\ error' = Null
    /\ statusMessage' = Msg("Upload a nail design image to start.")
    /\ inflight' = [k \in 1..Len(inflight) |-> [inflight[k] EXCEPT !.beforeReset = TRUE]]
    /\ UNCHANGED <<isLoading, processingProgress, progressTimer, loaderVars,
                   pending, modals, onResults>>

\* handleReset: the 'Try Another Design' button, rendered in the result view
\* (currentStep = "apply" with a processedImage).  Requests still with the
\* detector are marked as sent before the reset.
handleReset ==
    /\ UNCHANGED fnVars
    /\ currentStep = "apply"
    /\ processedImage # NoImage
    /\ PageReachable
    /\ postImage' = Null
    /\ userImage' = Null
    /\ processedImage' = NoImage
    /\ extractedDesigns' = <<>>
    /\ currentStep' = "upload"
    /\ error' = Null
    /\ statusMessage' = Msg("Upload a nail design image to start.")
    /\ processingProgress' = 0
    /\ inflight' = [k \in 1..Len(inflight) |-> [inflight[k] EXCEPT !.beforeReset = TRUE]]
    /\ UNCHANGED <<isLoading, progressTimer, loaderVars, pending, modals, onResults>>

Next ==
    \/ loadMediaPipeHands
    \/ \E i \in 1..Len(pending) : ScriptOnload(i)
    \/ \E i \in 1..Len(pending) : ScriptOnerror(i)
    \/ \E i \in 1..Len(pending) : DrawingUtilsOnload(i)
    \/ ProgressTimeout
    \/ \E file \in PostFiles : handlePostImageUpload(file)
    \/ \E i \in 1..Len(pending) : PostReaderOnload(i)
    \/ \E i \in 1..Len(pending) : PostImgOnload(i)
    \/ \E i \in 1..Len(pending) : PostUploadOnerror(i)
    \/ extractNailDesigns
    \/ \E i \in 1..Len(pending) : ExtractImageOnload(i)
    \/ \E i \in 1..Len(pending) : PassImageOnerror(i)
    \/ \E file \in UserFiles : handleUserImageUpload(file)
    \/ \E i \in 1..Len(pending) : UserReaderOnload(i)
    \/ \E i \in 1..Len(pending) : UserReaderOnerror(i)
    \/ handleCameraCapture
    \/ \E i \in 1..Len(pending) : CameraGranted(i)
    \/ \E i \in 1..Len(pending) : CameraDenied(i)
    \/ \E frame \in CameraFrames : TakePhoto(frame)
    \/ CancelPhoto
    \/ \E i \in 1..Len(pending) : ApplyImageOnload(i)
    \/ \E results \in HandsResults : DetectorResult(results)
    \/ DetectorSilent
    \/ handleReset

Spec == Init /\ [][Next]_vars


\* The asynchronous callbacks run when they are due, and the detector
\* settles every request it was sent, by a result or silently.
PendingRuns ==
    \E i \in 1..Len(pending) :
        \/ ScriptOnload(i) \/ DrawingUtilsOnload(i)
        \/ PostReaderOnload(i) \/ PostImgOnload(i)
        \/ ExtractImageOnload(i) \/ UserReaderOnload(i)
        \/ CameraGranted(i) \/ ApplyImageOnload(i)

DetectorSettles ==
    \/ \E results \in HandsResults : DetectorResult(results)
    \/ DetectorSilent

FairSpec == Spec /\ WF_vars(PendingRuns) /\ WF_vars(DetectorSettles)

(***************************************************************************)
(* The AdvancedNailTryOn variant (src/unnamed/part_002): its extraction    *)
(* handler, applied on its own to a detection result.                      *)
(***************************************************************************)
\* Every hand the detector may report.
AllHands == [Fingers -> FingerReports]
AllResults == {NoHand} \cup {[hands |-> 1, hand |-> h] : h \in AllHands}

\* The state fields the extraction handler writes, as they are when the
\* extraction pass runs.
DuringExtraction ==
    [extractedDesigns |-> <<>>, currentStep |-> "upload", error |-> Null,
     statusMessage |-> Msg("Extracting nail designs from the image..."),
     isLoading |-> TRUE]

\* The forEach of extractDesignsFromHand: a design is pushed for every
\* finger that has its tip, base and mid landmarks, whatever its length.
RECURSIVE AdvancedDesignsFrom(_, _)
AdvancedDesignsFrom(hand, i) ==
    IF i > Len(FINGER_LANDMARKS) THEN <<>>
    ELSE (IF hand[FINGER_LANDMARKS[i]] = Missing
          THEN <<>>
          ELSE <<[fingerId |-> FINGER_LANDMARKS[i]]>>)
         \o AdvancedDesignsFrom(hand, i + 1)

\* extractDesignsFromHand: the state fields after the handler has run on
\* results, from the fields before; ctx is whether the extraction canvas
\* and its 2d context are there.
extractDesignsFromHand(results, ctx, before) ==
    IF results.hands = 0 \/ ~ctx
    THEN [before EXCEPT !.error = Reported, !.isLoading = FALSE]
    ELSE LET designs == AdvancedDesignsFrom(results.hand, 1) IN
         [before EXCEPT !.extractedDesigns = designs,
                        !.currentStep = "capture",
                        !.statusMessage = MsgN("Extracted nail designs!", Len(designs)),
                        !.isLoading = FALSE]

ApplyExtractDesignsFromHand ==
    /\ call = NoCall
    /\ \E results \in AllResults, ctx \in BOOLEAN :
        /\ call' = [fn |-> "extractDesignsFromHand", args |-> <<results, ctx>>]
        /\ value' = extractDesignsFromHand(results, ctx, DuringExtraction)
        /\ UNCHANGED componentVars

(***************************************************************************)
(* Nail geometry from landmarks.  A landmark's normalised x and y are      *)
(* counted in units of 1 / LandmarkUnit; the images' sides are multiples   *)
(* of LandmarkUnit, so pixel coordinates are whole numbers.                *)
(***************************************************************************)
LandmarkUnit == 10
MaxCoord == 12      \* the largest coordinate, beyond the image's far edge

XCoords == {0, 4, 5, MaxCoord}
YCoords == {0, 2, 4, MaxCoord}
Landmarks == {[x |-> a, y |-> b] : a \in XCoords, b \in YCoords}

Images == {[naturalWidth |-> 1000, naturalHeight |-> 1000],
           [naturalWidth |-> 300,  naturalHeight |-> 400]}

Max(a, b) == IF a >= b THEN a ELSE b
Min(a, b) == IF a <= b THEN a ELSE b
Abs(a) == IF a >= 0 THEN a ELSE -a
Sq(a) == a * a

\* The whole part of Math.sqrt(n).
RECURSIVE SqrtBetween(_, _, _)
SqrtBetween(n, lo, hi) ==
    IF lo = hi THEN lo
    ELSE LET m == (lo + hi + 1) \div 2 IN
         IF m * m <= n THEN SqrtBetween(n, m, hi) ELSE SqrtBetween(n, lo, m - 1)

FloorSqrt(n) == SqrtBetween(n, 0, 46340)

RECURSIVE Gcd(_, _)
Gcd(a, b) == IF b = 0 THEN a ELSE Gcd(b, a % b)

\* Math.atan2(y, x): the angle is held as the direction it stands for, the
\* shortest whole-number <<y, x>> on the same ray; atan2(0, 0) is 0, the
\* direction of the positive x axis.
Atan2(y, x) ==
    IF x = 0 /\ y = 0 THEN <<0, 1>>
    ELSE LET g == Gcd(Abs(y), Abs(x)) IN
         <<(IF y >= 0 THEN Abs(y) \div g ELSE -(Abs(y) \div g)),
           (IF x >= 0 THEN Abs(x) \div g ELSE -(Abs(x) \div g))>>

\* { x: l.x * naturalWidth, y: l.y * naturalHeight } with both sides scaled
\* by the width.
ToPixelsByWidth(l, image) ==
    [x |-> (l.x * image.naturalWidth) \div LandmarkUnit,
     y |-> (l.y * image.naturalWidth) \div LandmarkUnit]

\* { x: l.x * naturalWidth, y: l.y * naturalHeight }
ToPixels(l, image) ==
    [x |-> (l.x * image.naturalWidth) \div LandmarkUnit,
     y |-> (l.y * image.naturalHeight) \div LandmarkUnit]

\* Math.sqrt(Math.pow(p.x - q.x, 2) + Math.pow(p.y - q.y, 2)), held as its
\* square and its whole part.
Distance(p, q) ==
    LET sq == Sq(p.x - q.x) + Sq(p.y - q.y) IN
    [sq |-> sq, whole |-> FloorSqrt(sq)]

\* nailLength as extractSingleNailDesign computes it on the source image.
ExtractNailLength(tip, base, sourceImage) ==
    Distance(ToPixels(tip, sourceImage), ToPixels(base, sourceImage))

\* nailLength as applyDesignsToDetectedHand computes it on the result
\* canvas, which has the size of the hand photo.
ApplyNailLength(tipLandmark, baseLandmark, originalImage) ==
    Distance(ToPixels(tipLandmark, originalImage),
             ToPixels(baseLandmark, originalImage))

\* rotation at extraction and at compositing, in the three components.
ExtractRotation(tipPx, basePx, midPx) ==
    Atan2(tipPx.y - midPx.y, tipPx.x - midPx.x)
ApplyRotation(tip, base, mid) ==
    Atan2(tip.y - mid.y, tip.x - mid.x)
ProfessionalExtractRotation(tipPx, basePx, midPx) ==
    Atan2(tipPx.y - midPx.y, tipPx.x - midPx.x)
ProfessionalApplyRotation(tip, base, mid) ==
    Atan2(tip.y - mid.y, tip.x - mid.x)
AdvancedExtractRotation(tip, base, mid) ==
    Atan2(tip.y - base.y, tip.x - base.x)
AdvancedApplyRotation(tip, base, mid) ==
    Atan2(tip.y - mid.y, tip.x - mid.x)

\* The smallest design canvas: Math.max(nailWidth * 1.5, 80) wide and
\* Math.max(nailLength * 1.5, 100) high.
MinCanvasWidth == 80
MinCanvasHeight == 100

\* canvas.width and canvas.height for a nail whose squared length is sq;
\* a canvas side is a whole number, the fraction is dropped on assignment.
\* nailWidth * 1.5 is 1.2 x the length, nailLength * 1.5 is 1.5 x.
CanvasWidth(sq) == Max(FloorSqrt(144 * sq) \div 10, MinCanvasWidth)
CanvasHeight(sq) == Max(FloorSqrt(225 * sq) \div 10, MinCanvasHeight)

\* The source rectangle taken without clamping its size to the image.
ExtractAreaUnclamped(tip, base, sourceImage) ==
    LET tipPx == ToPixels(tip, sourceImage)
        basePx == ToPixels(base, sourceImage)
        nailLength == Distance(tipPx, basePx) IN
    IF nailLength.sq < Sq(MinNailLength)
    THEN [returned |-> FALSE]
    ELSE LET width == CanvasWidth(nailLength.sq)
             height == CanvasHeight(nailLength.sq)
             centerX == 7 * tipPx.x + 3 * basePx.x
             centerY == 7 * tipPx.y + 3 * basePx.y
             extractX == Max(0, centerX - 5 * width)
             extractY == Max(0, centerY - 5 * height)
             extractWidth == 10 * width
             extractHeight == 10 * height IN
         [returned |-> TRUE,
          extractX |-> extractX, extractY |-> extractY,
          extractWidth |-> extractWidth, extractHeight |-> extractHeight,
          copied |-> extractWidth > 0 /\ extractHeight > 0]

\* 'Extract area around the nail' of extractSingleNailDesign: whether a
\* design is returned, the source rectangle handed to drawImage and whether
\* drawImage is called.  Positions and sizes are in tenths of a pixel
\* (centerX = tipPx.x * 0.7 + basePx.x * 0.3, half a canvas side).
ExtractArea(tip, base, sourceImage) ==
    LET tipPx == ToPixels(tip, sourceImage)
        basePx == ToPixels(base, sourceImage)
        nailLength == Distance(tipPx, basePx) IN
    IF nailLength.sq < Sq(MinNailLength)
    THEN [returned |-> FALSE]
    ELSE LET width == CanvasWidth(nailLength.sq)
             height == CanvasHeight(nailLength.sq)
             centerX == 7 * tipPx.x + 3 * basePx.x
             centerY == 7 * tipPx.y + 3 * basePx.y
             extractX == Max(0, centerX - 5 * width)
             extractY == Max(0, centerY - 5 * height)
             extractWidth == Min(10 * width, 10 * sourceImage.naturalWidth - extractX)
             extractHeight == Min(10 * height, 10 * sourceImage.naturalHeight - extractY) IN
         [returned |-> TRUE,
          extractX |-> extractX, extractY |-> extractY,
          extractWidth |-> extractWidth, extractHeight |-> extractHeight,
          copied |-> extractWidth > 0 /\ extractHeight > 0]

\* The design extractSingleNailDesign returns with 'height' set to the
\* canvas height in place of the nail length.
ExtractedNailDesignCanvasHigh(tip, base, sourceImage) ==
    LET nailLength == ExtractNailLength(tip, base, sourceImage) IN
    IF nailLength.sq < Sq(MinNailLength)
    THEN [returned |-> FALSE]
    ELSE [returned |-> TRUE,
          canvas |-> [width  |-> CanvasWidth(nailLength.sq),
                      height |-> CanvasHeight(nailLength.sq)],
          height |-> [sq    |-> Sq(CanvasHeight(nailLength.sq)),
                      whole |-> CanvasHeight(nailLength.sq)]]

\* The design extractSingleNailDesign returns: its canvas, sized at lines
\* 388-389, and 'height: nailLength'.
ExtractedNailDesign(tip, base, sourceImage) ==
    LET nailLength == ExtractNailLength(tip, base, sourceImage) IN
    IF nailLength.sq < Sq(MinNailLength)
    THEN [returned |-> FALSE]
    ELSE [returned |-> TRUE,
          canvas |-> [width  |-> CanvasWidth(nailLength.sq),
                      height |-> CanvasHeight(nailLength.sq)],
          height |-> nailLength]

\* scale = nailLength / design.height, held as the two lengths of the
\* fraction.
Scale(design, tipLandmark, baseLandmark, originalImage) ==
    [nailLength |-> ApplyNailLength(tipLandmark, baseLandmark, originalImage),
     height     |-> design.height]

\* Where applyDesignsToDetectedHand translates to before it draws a design:
\* centerX = tip.x * 0.7 + base.x * 0.3 and centerY likewise, in tenths of
\* a pixel.
ApplyCenter(tipLandmark, baseLandmark, originalImage) ==
    LET tip == ToPixels(tipLandmark, originalImage)
        base == ToPixels(baseLandmark, originalImage) IN
    [x |-> 7 * tip.x + 3 * base.x, y |-> 7 * tip.y + 3 * base.y]

\* 'Calculate nail center (closer to tip)' of extractSingleNailDesign:
\* centerX = tipPx.x * 0.7 + basePx.x * 0.3 and centerY likewise, in tenths
\* of a pixel.
ExtractCenter(tip, base, sourceImage) ==
    LET tipPx == ToPixels(tip, sourceImage)
        basePx == ToPixels(base, sourceImage) IN
    [x |-> 7 * tipPx.x + 3 * basePx.x, y |-> 7 * tipPx.y + 3 * basePx.y]

\* The destination rectangle of extractSingleNailDesign's drawImage,
\* (-canvas.width / 2, -canvas.height / 2, canvas.width, canvas.height)
\* under translate(canvas.width / 2, canvas.height / 2): the whole buffer.
\* In tenths of a pixel, from the buffer's top left corner, before the
\* rotation about the buffer's centre.
DrawImageDestination(canvas) ==
    [x |-> 0, y |-> 0, width |-> 10 * canvas.width, height |-> 10 * canvas.height]

Variants == {"NailTryOn", "ProfessionalNailTryOn", "AdvancedNailTryOn"}

Rotations(variant, tip, base, mid) ==
    CASE variant = "NailTryOn" ->
           [extraction  |-> ExtractRotation(tip, base, mid),
            compositing |-> ApplyRotation(tip, base, mid)]
      [] variant = "ProfessionalNailTryOn" ->
           [extraction  |-> ProfessionalExtractRotation(tip, base, mid),
            compositing |-> ProfessionalApplyRotation(tip, base, mid)]
      [] variant = "AdvancedNailTryOn" ->
           [extraction  |-> AdvancedExtractRotation(tip, base, mid),
            compositing |-> AdvancedApplyRotation(tip, base, mid)]

(***************************************************************************)
(* Pixel classification.  Fractions are compared exactly, by cross         *)
(* multiplication; floating-point rounding is not modelled.                *)
(***************************************************************************)
\* The channel values pixels are drawn from: the ends of the range and the
\* values around the thresholds of the rules.
ChannelValues == {0, 19, 20, 21, 40, 41, 50, 51, 77, 80, 81, 89, 90, 95, 96,
                  100, 111, 112, 120, 121, 180, 200, 201, 220, 221, 240, 241,
                  250, 255}

Max3(r, g, b) == Max(r, Max(g, b))
Min3(r, g, b) == Min(r, Min(g, b))

\* a % m of JavaScript, for whole a and positive m: the sign is a's.
JsRem(a, m) == IF a >= 0 THEN a % m ELSE -((-a) % m)

\* h of method 3, in degrees, as the fraction num / den.
Hue(r, g, b) ==
    LET max == Max3(r, g, b)
        min == Min3(r, g, b)
        delta == max - min
        sixths == IF max = r THEN JsRem(g - b, 6 * delta)
                  ELSE IF max = g THEN (b - r) + 2 * delta
                  ELSE (r - g) + 4 * delta
        h == 60 * sixths IN
    IF delta = 0 THEN [num |-> 0, den |-> 1]
    ELSE [num |-> IF h < 0 THEN h + 360 * delta ELSE h, den |-> delta]

\* isSkinToneAdvanced without its method 4.
isSkinToneThreeMethods(r, g, b) ==
    LET method1 ==
            /\ r > 95 /\ g > 40 /\ b > 20
            /\ Max3(r, g, b) - Min3(r, g, b) > 15
            /\ Abs(r - g) > 15 /\ r > g /\ r > b
        y == 299 * r + 587 * g + 114 * b
        cr == 713 * (1000 * r - y) + 128000000
        cb == 564 * (1000 * b - y) + 128000000
        method2 ==
            /\ y > 80000
            /\ cr >= 133000000 /\ cr <= 173000000
            /\ cb >= 77000000 /\ cb <= 127000000
        max == Max3(r, g, b)
        delta == max - Min3(r, g, b)
        s == IF max = 0 THEN [num |-> 0, den |-> 1] ELSE [num |-> delta, den |-> max]
        h == Hue(r, g, b)
        method3 ==
            /\ h.num >= 0 /\ h.num <= 50 * h.den
            /\ 100 * s.num >= 23 * s.den /\ 100 * s.num <= 68 * s.den
            /\ 100 * max >= 35 * 255
    IN method1 \/ method2 \/ method3

\* isSkinToneAdvanced.  y is in thousandths, cr and cb in millionths; s is
\* the fraction delta / max and v the fraction max / 255.
isSkinToneAdvanced(r, g, b) ==
    LET method1 ==
            /\ r > 95 /\ g > 40 /\ b > 20
            /\ Max3(r, g, b) - Min3(r, g, b) > 15
            /\ Abs(r - g) > 15 /\ r > g /\ r > b
        y == 299 * r + 587 * g + 114 * b
        cr == 713 * (1000 * r - y) + 128000000
        cb == 564 * (1000 * b - y) + 128000000
        method2 ==
            /\ y > 80000
            /\ cr >= 133000000 /\ cr <= 173000000
            /\ cb >= 77000000 /\ cb <= 127000000
        max == Max3(r, g, b)
        delta == max - Min3(r, g, b)
        s == IF max = 0 THEN [num |-> 0, den |-> 1] ELSE [num |-> delta, den |-> max]
        h == Hue(r, g, b)
        method3 ==
            /\ h.num >= 0 /\ h.num <= 50 * h.den
            /\ 100 * s.num >= 23 * s.den /\ 100 * s.num <= 68 * s.den
            /\ 100 * max >= 35 * 255
        method4 == r > 120 /\ g > 80 /\ b > 50 /\ r > b /\ g > b
    IN method1 \/ method2 \/ method3 \/ method4

\* isBackgroundPixel with the thresholds themselves included.
isBackgroundPixelInclusive(r, g, b) ==
    LET brightness == r + g + b
        variance == Max3(Abs(r - g), Abs(g - b), Abs(r - b)) IN
    brightness <= 60 \/ brightness >= 720 \/ (variance <= 20 /\ brightness >= 600)

\* isBackgroundPixel.
isBackgroundPixel(r, g, b) ==
    LET brightness == r + g + b
        variance == Max3(Abs(r - g), Abs(g - b), Abs(r - b)) IN
    brightness < 60 \/ brightness > 720 \/ (variance < 20 /\ brightness > 600)

\* The alpha values of the pixels copied from the source image.
PixelAlphas == {128, 255}

\* A channel times brightness 1.2 stored without the cap, in a byte array
\* that wraps around.
EnhanceWrapping(c) == ((12 * c + 5) \div 10) % 256

\* A channel times brightness 1.2, capped at 255 and stored in the clamped
\* byte array, which rounds to the nearest whole number.
Enhance(c) == Min(255, (12 * c + 5) \div 10)

\* The body of the pixel loop of extractSingleNailDesign on one pixel.
ProcessPixel(p) ==
    IF isSkinToneAdvanced(p.r, p.g, p.b) \/ isBackgroundPixel(p.r, p.g, p.b)
    THEN [p EXCEPT !.a = 0]
    ELSE [p EXCEPT !.r = Enhance(p.r), !.g = Enhance(p.g), !.b = Enhance(p.b)]

\* detectSkinTone of ProfessionalNailTryOn.
detectSkinTone(r, g, b) ==
    LET method1 ==
            /\ r > 95 /\ g > 40 /\ b > 20
            /\ Max3(r, g, b) - Min3(r, g, b) > 15
            /\ Abs(r - g) > 15 /\ r > g /\ r > b
        method2 == r > 120 /\ g > 80 /\ b > 50 /\ r > b /\ g > b /\ Abs(r - g) < 50
        method3 ==
            /\ r >= 60 /\ r <= 255 /\ g >= 40 /\ g <= 255 /\ b >= 20 /\ b <= 255
            /\ r > g /\ g > b /\ r > b /\ r - g >= 10 /\ g - b >= 5
        method4 == r > 80 /\ g > 50 /\ b > 30 /\ r > b /\ g > b
    IN method1 \/ method2 \/ method3 \/ method4

\* detectBackground of ProfessionalNailTryOn.
detectBackground(r, g, b) ==
    LET brightness == r + g + b
        isVeryDark == brightness < 50
        isVeryLight == brightness > 700
        isNeutral == Abs(r - g) < 15 /\ Abs(g - b) < 15 /\ Abs(r - b) < 15 IN
    isVeryDark \/ isVeryLight \/ (isNeutral /\ brightness > 600)

\* isSkinTone1 || isSkinTone2 || isSkinTone3 of AdvancedNailTryOn's pixel loop.
AdvancedIsSkinTone(r, g, b) ==
    LET isSkinTone1 ==
            /\ r > 95 /\ g > 40 /\ b > 20
            /\ Max3(r, g, b) - Min3(r, g, b) > 15
            /\ Abs(r - g) > 15 /\ r > g /\ r > b
        isSkinTone2 == r > 120 /\ g > 80 /\ b > 50 /\ r > b /\ g > b /\ Abs(r - g) < 50
        isSkinTone3 ==
            /\ r >= 60 /\ r <= 255 /\ g >= 40 /\ g <= 255 /\ b >= 20 /\ b <= 255
            /\ r > g /\ g > b /\ r > b /\ r - g >= 10 /\ g - b >= 5
    IN isSkinTone1 \/ isSkinTone2 \/ isSkinTone3

\* isBackground of AdvancedNailTryOn's pixel loop.
AdvancedIsBackground(r, g, b) ==
    \/ (r + g + b) < 30
    \/ (r + g + b) > 650
    \/ (Abs(r - g) < 10 /\ Abs(g - b) < 10 /\ Abs(r - b) < 10)

\* What the pixel loop of each component finds for a pixel; the pixel is
\* made transparent when it is skin or background and is design otherwise.
Classification(variant, r, g, b) ==
    CASE variant = "NailTryOn" ->
           [isSkinTone   |-> isSkinToneAdvanced(r, g, b),
            isBackground |-> isBackgroundPixel(r, g, b)]
      [] variant = "ProfessionalNailTryOn" ->
           [isSkinTone   |-> detectSkinTone(r, g, b),
            isBackground |-> detectBackground(r, g, b)]
      [] variant = "AdvancedNailTryOn" ->
           [isSkinTone   |-> AdvancedIsSkinTone(r, g, b),
            isBackground |-> AdvancedIsBackground(r, g, b)]

\* The channel values the three components are compared on.
VariantChannelValues == {0, 60, 128, 200, 255}

(***************************************************************************)
(* The functions applied on their own.                                     *)
(***************************************************************************)
\* Each application starts from the initial state and records the function,
\* its arguments and what it returned.

\* The design lists extraction can store.
StorableDesigns == {DesignsFrom(h, 1) : h \in AllHands} \ {<<>>}

ApplyProcessHandLandmarks ==
    /\ call = NoCall
    /\ \E results \in AllResults \ {NoHand} :
        /\ call' = [fn |-> "processHandLandmarks", args |-> <<results>>]
        /\ value' = processHandLandmarks(results)
        /\ UNCHANGED componentVars

ApplyDrawnOn ==
    /\ call = NoCall
    /\ \E hand \in AllHands, designs \in StorableDesigns :
        /\ call' = [fn |-> "applyDesignsToDetectedHand", args |-> <<hand, designs>>]
        /\ value' = DrawnOn(hand, designs)
        /\ UNCHANGED componentVars

ApplyNailLengths ==
    /\ call = NoCall
    /\ \E tip \in Landmarks, base \in Landmarks, image \in Images :
        /\ call' = [fn |-> "nailLength", args |-> <<tip, base, image>>]
        /\ value' = [extraction  |-> ExtractNailLength(tip, base, image),
                     compositing |-> ApplyNailLength(tip, base, image)]
        /\ UNCHANGED componentVars

ApplyRotations ==
    /\ call = NoCall
    /\ \E variant \in Variants, tip \in Landmarks, base \in Landmarks,
          mid \in Landmarks, image \in Images :
        /\ call' = [fn |-> "rotation", args |-> <<variant, tip, base, mid, image>>]
        /\ value' = Rotations(variant, ToPixels(tip, image), ToPixels(base, image),
                              ToPixels(mid, image))
        /\ UNCHANGED componentVars

ApplyExtractArea ==
    /\ call = NoCall
    /\ \E tip \in Landmarks, base \in Landmarks, image \in Images :
        /\ call' = [fn |-> "extractSingleNailDesign", args |-> <<tip, base, image>>]
        /\ value' = ExtractArea(tip, base, image)
        /\ UNCHANGED componentVars

\* The pixel loop on one pixel copied from the source image.
ApplyProcessPixel ==
    /\ call = NoCall
    /\ \E r \in ChannelValues, g \in ChannelValues, b \in ChannelValues,
          a \in PixelAlphas :
        /\ call' = [fn |-> "pixel", args |-> <<r, g, b, a>>]
        /\ value' = [isSkinTone   |-> isSkinToneAdvanced(r, g, b),
                     isBackground |-> isBackgroundPixel(r, g, b),
                     pixel |-> ProcessPixel([r |-> r, g |-> g, b |-> b, a |-> a])]
        /\ UNCHANGED componentVars

ApplyClassification ==
    /\ call = NoCall
    /\ \E variant \in Variants, r \in VariantChannelValues,
          g \in VariantChannelValues, b \in VariantChannelValues :
        /\ call' = [fn |-> "classification", args |-> <<variant, r, g, b>>]
        /\ value' = Classification(variant, r, g, b)
        /\ UNCHANGED componentVars

\* Where the tip and the base joint of the nail drawn on are reported.
TargetTips == {l \in Landmarks : l.x \in {4, 5}}
TargetBases == {l \in Landmarks : l.x = 4}

\* A design extracted from one nail and the scale at which it is drawn on
\* another.
ApplyScale ==
    /\ call = NoCall
    /\ \E tip \in Landmarks, base \in Landmarks, sourceImage \in Images,
          tipLandmark \in TargetTips, baseLandmark \in TargetBases,
          originalImage \in Images :
        LET design == ExtractedNailDesign(tip, base, sourceImage) IN
        /\ call' = [fn |-> "scale",
                    args |-> <<tip, base, sourceImage,
                               tipLandmark, baseLandmark, originalImage>>]
        /\ value' = IF design.returned
                    THEN [returned |-> TRUE, design |-> design,
                          scale |-> Scale(design, tipLandmark, baseLandmark,
                                          originalImage)]
                    ELSE [returned |-> FALSE]
        /\ UNCHANGED componentVars

\* A design extracted from a finger and drawn back on the same landmarks of
\* an image of the same size.
ApplyRoundTrip ==
    /\ call = NoCall
    /\ \E tip \in Landmarks, base \in Landmarks, mid \in Landmarks,
          image \in Images :
        LET design == ExtractedNailDesign(tip, base, image) IN
        /\ call' = [fn |-> "roundTrip", args |-> <<tip, base, mid, image>>]
        /\ value' =
            IF design.returned
            THEN [returned |-> TRUE,
                  window |-> ExtractArea(tip, base, image),
                  extraction |-> ExtractRotation(ToPixels(tip, image),
                                                 ToPixels(base, image),
                                                 ToPixels(mid, image)),
                  center |-> ApplyCenter(tip, base, image),
                  rotation |-> ApplyRotation(ToPixels(tip, image),
                                             ToPixels(base, image),
                                             ToPixels(mid, image)),
                  scale |-> Scale(design, tip, base, image)]
            ELSE [returned |-> FALSE]
        /\ UNCHANGED componentVars

\* The colour of a nail in the design image: bare, or painted red.
BareNail == [r |-> 224, g |-> 172, b |-> 105, a |-> 255]
PaintedNail == [r |-> 200, g |-> 0, b |-> 50, a |-> 255]
NailPixel(nail) == IF nail = "painted" THEN PaintedNail ELSE BareNail
SourceNails == [Fingers -> {"missing", "bare", "painted"}]

\* The designs stored for a hand whose nails have the given colours: one
\* per finger present, its canvas being the nail's colour after the pixel
\* loop.
DesignCanvases(nails) ==
    LET all == [i \in 1..Len(FINGER_LANDMARKS) |->
                  LET f == FINGER_LANDMARKS[i] IN
                  [fingerId |-> f, stored |-> nails[f] # "missing",
                   canvas |-> ProcessPixel(NailPixel(nails[f]))]]
        kept == SelectSeq(all, LAMBDA d : d.stored) IN
    [k \in 1..Len(kept) |-> [fingerId |-> kept[k].fingerId,
                             canvas |-> kept[k].canvas]]

\* The fingers whose region of the result canvas the drawImage of line 686
\* changes: a canvas without an opaque pixel leaves the result as it was.
Modified(hand, designs) ==
    {FINGER_LANDMARKS[index] :
        index \in {k \in 1..Len(FINGER_LANDMARKS) :
                      /\ hand[FINGER_LANDMARKS[k]] # Missing
                      /\ k <= Len(designs)
                      /\ designs[k].canvas.a > 0}}

\* The hands of the photo: each finger missing or present.
TargetHands == [Fingers -> {Missing, MinNailLength}]

\* The count applyDesignsToDetectedHand reports and the fingers its draws
\* changed.
ApplyDesignsApplied ==
    /\ call = NoCall
    /\ \E nails \in SourceNails, hand \in TargetHands :
        LET designs == DesignCanvases(nails) IN
        /\ call' = [fn |-> "designsApplied", args |-> <<nails, hand, designs>>]
        /\ value' = [designsApplied |-> Cardinality(DrawnOn(hand, designs)),
                     modified |-> Modified(hand, designs)]
        /\ UNCHANGED componentVars

\* What the browser does during a share: whether fetch of the data URL
\* succeeds, whether navigator.share exists, what navigator.canShare says
\* (it may be absent), and whether the share promise resolves.
ShareEnvironments ==
    [fetch : {"resolves", "throws"}, share : BOOLEAN,
     canShare : {"absent", "false", "true"}, shared : {"resolves", "rejects"}]

\* The results a share or a save may be asked for.
ShareImages == {NoImage, [base |-> "c1", drawn |-> {}]}

\* handleSaveImage with the processedImage of its closure: the images
\* downloaded and the status line written (Null: none).
handleSaveImage(image) ==
    IF image # NoImage
    THEN [saved |-> <<image>>, statusMessage |-> Msg("Image saved successfully!")]
    ELSE [saved |-> <<>>, statusMessage |-> Null]

\* handleShare whose catch block only logs.
handleShareLoggingOnly(image, env) ==
    IF image = NoImage
    THEN [fetched |-> FALSE, shareCalled |-> FALSE, saved |-> <<>>,
          statusMessage |-> Null]
    ELSE IF env.fetch = "throws"
    THEN [fetched |-> TRUE, shareCalled |-> FALSE, saved |-> <<>>,
          statusMessage |-> Null]
    ELSE IF env.share /\ env.canShare = "true"
    THEN IF env.shared = "resolves"
         THEN [fetched |-> TRUE, shareCalled |-> TRUE, saved |-> <<>>,
               statusMessage |-> Msg("Image shared successfully!")]
         ELSE [fetched |-> TRUE, shareCalled |-> TRUE, saved |-> <<>>,
               statusMessage |-> Null]
    ELSE [fetched |-> TRUE, shareCalled |-> FALSE,
          saved |-> handleSaveImage(image).saved,
          statusMessage |-> Msg("Sharing not supported. Image saved instead.")]

\* handleShare with the processedImage and the handleSaveImage of its
\* closure: whether the data URL was fetched, whether navigator.share was
\* called, the images downloaded and the last status line written.
handleShare(image, env) ==
    IF image = NoImage
    THEN [fetched |-> FALSE, shareCalled |-> FALSE, saved |-> <<>>,
          statusMessage |-> Null]
    ELSE IF env.fetch = "throws"
    THEN [fetched |-> TRUE, shareCalled |-> FALSE,
          saved |-> handleSaveImage(image).saved,
          statusMessage |-> handleSaveImage(image).statusMessage]
    ELSE IF env.share /\ env.canShare = "true"
    THEN IF env.shared = "resolves"
         THEN [fetched |-> TRUE, shareCalled |-> TRUE, saved |-> <<>>,
               statusMessage |-> Msg("Image shared successfully!")]
         ELSE [fetched |-> TRUE, shareCalled |-> TRUE,
               saved |-> handleSaveImage(image).saved,
               statusMessage |-> handleSaveImage(image).statusMessage]
    ELSE [fetched |-> TRUE, shareCalled |-> FALSE,
          saved |-> handleSaveImage(image).saved,
          statusMessage |-> Msg("Sharing not supported. Image saved instead.")]

ApplyHandleShare ==
    /\ call = NoCall
    /\ \E image \in ShareImages, env \in ShareEnvironments :
        /\ call' = [fn |-> "handleShare", args |-> <<image, env>>]
        /\ value' = handleShare(image, env)
        /\ UNCHANGED componentVars

\* The drawImage of extractSingleNailDesign: the source rectangle, where
\* the nail centre is, and the part of the buffer it is drawn into.
ApplyDrawImage ==
    /\ call = NoCall
    /\ \E tip \in Landmarks, base \in Landmarks, sourceImage \in Images :
        LET design == ExtractedNailDesign(tip, base, sourceImage) IN
        /\ call' = [fn |-> "drawImage", args |-> <<tip, base, sourceImage>>]
        /\ value' =
            IF design.returned
            THEN [returned |-> TRUE,
                  canvas |-> design.canvas,
                  center |-> ExtractCenter(tip, base, sourceImage),
                  source |-> ExtractArea(tip, base, sourceImage),
                  destination |-> DrawImageDestination(design.canvas)]
            ELSE [returned |-> FALSE]
        /\ UNCHANGED componentVars

\* The drawing state of the result canvas' 2D context when the forEach
\* starts (setting the canvas size resets it): no transform, "source-over",
\* globalAlpha 1 (held in tenths), nothing saved.
DefaultContext ==
    [transform |-> <<>>, globalCompositeOperation |-> "source-over",
     globalAlpha |-> 10, saved |-> <<>>]

\* ctx.save(): the current drawing state is pushed.
ctxSave(ctx) ==
    [ctx EXCEPT !.saved = Append(@, [transform |-> ctx.transform,
                                     globalCompositeOperation |-> ctx.globalCompositeOperation,
                                     globalAlpha |-> ctx.globalAlpha])]

\* ctx.restore(): the drawing state pushed last is popped and set; with
\* nothing saved it does nothing.
ctxRestore(ctx) ==
    IF ctx.saved = <<>> THEN ctx
    ELSE LET top == ctx.saved[Len(ctx.saved)] IN
         [transform |-> top.transform,
          globalCompositeOperation |-> top.globalCompositeOperation,
          globalAlpha |-> top.globalAlpha,
          saved |-> SubSeq(ctx.saved, 1, Len(ctx.saved) - 1)]

\* The context as it is when a finger's design is drawn: after save,
\* translate, rotate, scale, 'multiply' and globalAlpha 0.8.
ContextAtDraw(ctx, finger) ==
    [ctxSave(ctx) EXCEPT
        !.transform = @ \o << <<"translate", finger>>, <<"rotate", finger>>,
                              <<"scale", finger>> >>,
        !.globalCompositeOperation = "multiply",
        !.globalAlpha = 8]

\* One finger composited without the ctx.restore() that ends it.
CompositeFingerUnrestored(ctx, finger) ==
    [finger |-> finger, before |-> ctx,
     drawnWith |-> ContextAtDraw(ctx, finger),
     after |-> ContextAtDraw(ctx, finger)]

\* One finger composited, lines 677-688: the context before it, at its
\* drawImage, and after its ctx.restore().
CompositeFinger(ctx, finger) ==
    [finger |-> finger, before |-> ctx,
     drawnWith |-> ContextAtDraw(ctx, finger),
     after |-> ctxRestore(ContextAtDraw(ctx, finger))]

\* The forEach of applyDesignsToDetectedHand from the finger at position
\* index on, each finger starting with the context the one before left.
RECURSIVE CompositeLoop(_, _, _, _)
CompositeLoop(ctx, hand, designs, index) ==
    IF index > Len(FINGER_LANDMARKS) THEN <<>>
    ELSE IF hand[FINGER_LANDMARKS[index]] # Missing /\ index <= Len(designs)
    THEN LET step == CompositeFinger(ctx, FINGER_LANDMARKS[index]) IN
         <<step>> \o CompositeLoop(step.after, hand, designs, index + 1)
    ELSE CompositeLoop(ctx, hand, designs, index + 1)

ApplyCompositeLoop ==
    /\ call = NoCall
    /\ \E hand \in TargetHands, designs \in StorableDesigns :
        /\ call' = [fn |-> "compositeLoop", args |-> <<hand, designs>>]
        /\ value' = CompositeLoop(DefaultContext, hand, designs, 1)
        /\ UNCHANGED componentVars

FnNext ==
    \/ ApplyCompositeLoop
    \/ ApplyDrawImage
    \/ ApplyHandleShare
    \/ ApplyDesignsApplied
    \/ ApplyRoundTrip
    \/ ApplyScale
    \/ ApplyExtractDesignsFromHand
    \/ ApplyProcessHandLandmarks
    \/ ApplyDrawnOn
    \/ ApplyNailLengths
    \/ ApplyRotations
    \/ ApplyExtractArea
    \/ ApplyProcessPixel
    \/ ApplyClassification

FnSpec == Init /\ [][FnNext]_vars

(***************************************************************************)
(* Properties.                                                             *)
(***************************************************************************)
StoredFingers(designs) == {designs[k].fingerId : k \in 1..Len(designs)}

PostNames == {f.name : f \in PostFiles}

\* A step in which the result canvas is encoded into processedImage.
Composited == processedImage' # processedImage /\ processedImage' # NoImage

\* C1: compositing draws only on fingers that have a stored design: the
\* fingers drawn on in a result are among the fingerIds of the designs the
\* compositing pass worked from.
C1_DrawnOnlyWhereStored ==
    [][Composited =>
         \A d \in processedImage'.drawn :
            d.finger \in StoredFingers(onResults.designs)]_vars

\* C2: the design drawn onto finger f is the stored design whose fingerId
\* is f.
C2_DesignMatchesFinger ==
    [][Composited =>
         \A d \in processedImage'.drawn : d.design = d.finger]_vars

\* The detector settles a request that was sent before the last reset.
StaleSettled ==
    /\ inflight # <<>>
    /\ inflight[1].beforeReset
    /\ inflight' = Tail(inflight)

\* C3: a detector callback that fires for a request sent before a reset
\* changes none of postImage, userImage, processedImage, extractedDesigns
\* and currentStep.
C3_StaleResultIgnored ==
    [][StaleSettled =>
         UNCHANGED <<postImage, userImage, processedImage, extractedDesigns,
                     currentStep>>]_vars

\* C4: at most one send is outstanding on the detector at any time.
C4_OneSendOutstanding == Len(inflight) <= 1

\* C5: after a successful extraction, a hand photo chosen through the file
\* input starts the apply pass with the current detector and designs: its
\* image is queued for the detector and isLoading is set.
C5_UploadStartsApply ==
    [][\A i \in 1..Len(pending) :
         (/\ handsModel
          /\ Len(extractedDesigns) > 0
          /\ UserReaderOnload(i))
         => (/\ isLoading'
             /\ \E j \in 1..Len(pending') :
                  /\ pending'[j].kind = "applyLoad"
                  /\ pending'[j].image = pending[i].image
                  /\ pending'[j].designs = extractedDesigns)]_vars

\* C6: every pass that sets isLoading eventually sets it back to false,
\* also when the detector never reports on the request.
C6_LoadingEnds == isLoading ~> ~isLoading

\* The detector reports zero hands for its oldest request.
ZeroHandsFor(images) ==
    /\ inflight # <<>>
    /\ inflight[1].image \in images
    /\ DetectorResult(NoHand)

\* C7: zero hands in the design image: an error is reported, isLoading is
\* false, extractedDesigns is unchanged and currentStep remains "upload".
C7_NoHandInSourceBlocks ==
    [][ZeroHandsFor(PostNames) =>
         (/\ error' = Reported
          /\ ~isLoading'
          /\ extractedDesigns' = extractedDesigns
          /\ currentStep' = "upload")]_vars

\* C8: zero hands in the hand photo: the result is the photo with nothing
\* drawn on it, and the result view (currentStep = "apply" with a
\* processedImage) shows it.
C8_NoHandInTargetShown ==
    [][(/\ ZeroHandsFor(CameraFrames)
        /\ onResults.kind = "apply"
        /\ statusMessage' = Msg("No hand detected in your image."))
       => (/\ processedImage' = [base |-> onResults.image, drawn |-> {}]
           /\ currentStep' = "apply")]_vars

\* C9: the stage advances only in order: "upload" to "capture", "capture"
\* to "apply", and back to "upload" by reset.
C9_StagesInOrder ==
    [][currentStep' # currentStep =>
         \/ currentStep = "upload" /\ currentStep' = "capture"
         \/ currentStep = "capture" /\ currentStep' = "apply"
         \/ currentStep' = "upload" /\ handleReset]_vars

\* A pass is in progress: its image is being decoded or the detector has
\* a request.
PassPending ==
    \/ inflight # <<>>
    \/ \E i \in 1..Len(pending) : pending[i].kind \in {"extractLoad", "applyLoad"}

\* C10: reset is taken only in Idle ("upload", nothing pending) or in
\* ExtractionDone ("capture", nothing pending).
C10_ResetOnlyWhenIdle ==
    [][handleReset => (currentStep \in {"upload", "capture"} /\ ~PassPending)]_vars

\* C11: reset returns every pipeline state field to its initial value:
\* postImage, userImage and processedImage null, extractedDesigns empty,
\* currentStep "upload", error null, processingProgress 0 and isLoading
\* false, from any state in which the reset button can be pressed.
C11_ResetRestoresInitial ==
    [][handleReset =>
         (/\ postImage' = Null
          /\ userImage' = Null
          /\ processedImage' = NoImage
          /\ extractedDesigns' = <<>>
          /\ currentStep' = "upload"
          /\ error' = Null
          /\ processingProgress' = 0
          /\ ~isLoading')]_vars

\* A reset has happened: the detector is stored, yet the status line is the
\* initial one, which only Init and handleReset write.
C11_AfterReset ==
    /\ handsModel
    /\ statusMessage = Msg("Upload a nail design image to start.")
    /\ currentStep = "upload"
    /\ postImage = Null
    /\ ~isLoading

\* C12: when a hand is detected in the design image but no finger yields a
\* design, an error is reported, no designs are stored and currentStep
\* stays "upload"; here for the extraction handler of AdvancedNailTryOn.
C12_NoDesignIsAnError ==
    (/\ call.fn = "extractDesignsFromHand"
     /\ call.args[1].hands = 1
     /\ value.extractedDesigns = <<>>)
    => (/\ value.error = Reported
        /\ value.currentStep = "upload")

\* applyDesignsToUserHand is called by a closure that has no detector or no
\* designs: from the file input's reader, or from a capture modal.
ApplyCalledUnready ==
    \/ \E i \in 1..Len(pending) : UserReaderOnload(i)
    \/ /\ modals # <<>>
       /\ ~modals[Len(modals)].hm \/ modals[Len(modals)].designs = <<>>
       /\ \E frame \in CameraFrames : TakePhoto(frame)

ApplyLoads(queue) == {j \in 1..Len(queue) : queue[j].kind = "applyLoad"}

\* C13: applyDesignsToUserHand called while extractedDesigns is empty or the
\* detector is absent reports an error, leaves isLoading false, sends
\* nothing to the detector (no image decode is queued for it either), and
\* leaves processedImage (as its caller had just cleared it),
\* extractedDesigns and currentStep as they are.
C13_UnreadyApplyRefused ==
    [][ApplyCalledUnready =>
         (/\ error' = Reported
          /\ ~isLoading'
          /\ inflight' = inflight
          /\ Cardinality(ApplyLoads(pending')) = Cardinality(ApplyLoads(pending))
          /\ processedImage' = NoImage
          /\ extractedDesigns' = extractedDesigns
          /\ currentStep' = currentStep)]_vars

\* The reader of the file input has run applyDesignsToUserHand on a photo.
C13_UploadRefused ==
    /\ userImage \in {f.name : f \in UserFiles}
    /\ statusMessage = Msg("Processing your image...")
    /\ error = Reported
    /\ ~isLoading
    /\ Len(extractedDesigns) > 0
    /\ currentStep = "capture"

\* C14: every design stored by extraction has its nail length (height) and
\* its nail width both at or above the 20 px floor.
C14_DesignsAboveFloor ==
    \A k \in 1..Len(extractedDesigns) :
        /\ extractedDesigns[k].height >= MinNailLength
        /\ extractedDesigns[k].width >= MinNailLength

\* C15: a finger without one of its tip, base and mid landmarks is skipped
\* in that pass: extraction stores no design for it and compositing does
\* not draw on it, while the other fingers are still processed (extraction
\* stores every finger at or above the floor, compositing draws on every
\* finger with landmarks whose array entry exists).
C15_MissingLandmarkSkipsFinger ==
    /\ call.fn = "processHandLandmarks" =>
          LET hand == call.args[1].hand IN
          \A f \in Fingers :
             /\ hand[f] = Missing => f \notin StoredFingers(value)
             /\ hand[f] >= MinNailLength => f \in StoredFingers(value)
    /\ call.fn = "applyDesignsToDetectedHand" =>
          LET hand == call.args[1]
              designs == call.args[2]
              drawn == {d.finger : d \in value} IN
          \A k \in 1..Len(FINGER_LANDMARKS) :
             /\ hand[FINGER_LANDMARKS[k]] = Missing => FINGER_LANDMARKS[k] \notin drawn
             /\ (hand[FINGER_LANDMARKS[k]] # Missing /\ k <= Len(designs))
                  => FINGER_LANDMARKS[k] \in drawn

\* Extraction ran on a hand whose index finger lacks a landmark, and stored
\* the other four fingers.
C15_IndexSkipped ==
    /\ call.fn = "processHandLandmarks"
    /\ call.args[1].hand["index"] = Missing
    /\ StoredFingers(value) = Fingers \ {"index"}

C17_LengthIsEuclidean ==
    call.fn = "nailLength" =>
        LET tip == call.args[1]
            base == call.args[2]
            image == call.args[3]
            dx == (tip.x - base.x) * image.naturalWidth
            dy == (tip.y - base.y) * image.naturalHeight
            length == value.extraction IN
        /\ value.compositing = length
        /\ length.sq * Sq(LandmarkUnit) = Sq(dx) + Sq(dy)
        /\ Sq(length.whole) <= length.sq
        /\ length.sq < Sq(length.whole + 1)

\* tip = (0.5, 0.2) and base = (0.5, 0.4) on a 1000 x 1000 image: 200.
C17_Example200 ==
    /\ call.fn = "nailLength"
    /\ call.args = <<[x |-> 5, y |-> 2], [x |-> 5, y |-> 4],
                     [naturalWidth |-> 1000, naturalHeight |-> 1000]>>
    /\ value.extraction = [sq |-> 40000, whole |-> 200]
    /\ value.compositing = [sq |-> 40000, whole |-> 200]

\* C18: in every component variant the rotation of extraction and the
\* rotation of compositing are both the angle of the mid-to-tip pixel
\* vector.
C18_RotationFromMidToTip ==
    call.fn = "rotation" =>
        LET tipPx == ToPixels(call.args[2], call.args[5])
            midPx == ToPixels(call.args[4], call.args[5])
            midToTip == Atan2(tipPx.y - midPx.y, tipPx.x - midPx.x) IN
        /\ value.extraction = midToTip
        /\ value.compositing = midToTip

\* C19: whenever extractSingleNailDesign copies pixels, the source
\* rectangle lies inside the image; when the clamped width or height is not
\* positive nothing is copied, and a design is returned all the same.
C19_SourceRectangleInsideImage ==
    (call.fn = "extractSingleNailDesign" /\ value.returned) =>
        LET image == call.args[3] IN
        /\ value.copied =>
              /\ value.extractX >= 0
              /\ value.extractY >= 0
              /\ value.extractX + value.extractWidth <= 10 * image.naturalWidth
              /\ value.extractY + value.extractHeight <= 10 * image.naturalHeight
        /\ (value.extractWidth <= 0 \/ value.extractHeight <= 0) => ~value.copied

\* A nail near the far edge: the rectangle is cut at the image's right
\* side and pixels are copied.
C19_ClampedCopy ==
    /\ call.fn = "extractSingleNailDesign"
    /\ value.returned
    /\ value.copied
    /\ value.extractX > 0
    /\ value.extractX + value.extractWidth = 10 * call.args[3].naturalWidth
    /\ value.extractWidth < 10 * MinCanvasWidth

\* A nail beyond the far edge: the clamped width is not positive, nothing
\* is copied, the design is returned.
C19_NothingToCopy ==
    /\ call.fn = "extractSingleNailDesign"
    /\ value.returned
    /\ value.extractWidth <= 0
    /\ ~value.copied

\* The four skin rules as the specification states them.
RgbRatioRule(r, g, b) ==
    /\ r > 95 /\ g > 40 /\ b > 20
    /\ Max3(r, g, b) - Min3(r, g, b) > 15
    /\ r - g > 15 /\ r > g /\ r > b

\* y = 0.299r + 0.587g + 0.114b > 80, cr = 0.713(r - y) + 128 in [133, 173],
\* cb = 0.564(b - y) + 128 in [77, 127]; y1000 is 1000 y.
YCrCbRule(r, g, b) ==
    LET y1000 == 299 * r + 587 * g + 114 * b IN
    /\ y1000 > 80 * 1000
    /\ 713 * (1000 * r - y1000) >= 5 * 1000000
    /\ 713 * (1000 * r - y1000) <= 45 * 1000000
    /\ 564 * (1000 * b - y1000) >= -51 * 1000000
    /\ 564 * (1000 * b - y1000) <= -1 * 1000000

\* The standard conversion: h = 60 (((g - b) / delta) mod 6) when r is the
\* largest, 60 ((b - r) / delta + 2) when g is, 60 ((r - g) / delta + 4)
\* when b is, 0 for a gray; s = delta / max (0 for black); v = max / 255.
HsvRule(r, g, b) ==
    LET max == Max3(r, g, b)
        delta == max - Min3(r, g, b)
        hTimesDelta == IF delta = 0 THEN 0
                       ELSE IF max = r THEN 60 * ((g - b) % (6 * delta))
                       ELSE IF max = g THEN 60 * (b - r) + 120 * delta
                       ELSE 60 * (r - g) + 240 * delta IN
    /\ hTimesDelta >= 0
    /\ hTimesDelta <= 50 * delta
    /\ max > 0
    /\ 100 * delta >= 23 * max
    /\ 100 * delta <= 68 * max
    /\ 100 * max >= 35 * 255

SimplifiedLooseRule(r, g, b) == r > 120 /\ g > 80 /\ b > 50 /\ r > b /\ g > b

\* C20: isSkinToneAdvanced is true exactly when one of the four skin rules
\* holds, and the pixel loop keeps a pixel as design (does not make it
\* transparent) exactly when neither isSkinToneAdvanced nor
\* isBackgroundPixel is true.
C20_SkinIsAnyOfFourRules ==
    call.fn = "pixel" =>
        LET r == call.args[1]
            g == call.args[2]
            b == call.args[3] IN
        /\ value.isSkinTone <=>
              \/ RgbRatioRule(r, g, b)
              \/ YCrCbRule(r, g, b)
              \/ HsvRule(r, g, b)
              \/ SimplifiedLooseRule(r, g, b)
        /\ value.pixel.a # 0 <=> ~(value.isSkinTone \/ value.isBackground)

\* A pixel that only the simplified loose rule takes for skin, made
\* transparent.
C20_SkinByLooseRuleOnly ==
    /\ call.fn = "pixel"
    /\ value.isSkinTone
    /\ ~value.isBackground
    /\ ~RgbRatioRule(call.args[1], call.args[2], call.args[3])
    /\ ~YCrCbRule(call.args[1], call.args[2], call.args[3])
    /\ ~HsvRule(call.args[1], call.args[2], call.args[3])
    /\ value.pixel.a = 0

\* C21: isBackgroundPixel is strict at every threshold: r+g+b = 59 is
\* background and 60 is not; 721 is background, and 720 is not unless the
\* neutral rule fires; between 601 and 720 a pixel is background exactly
\* when its largest pairwise channel difference is below 20, and at 600 or
\* below the neutral rule does not fire.
C21_BackgroundThresholdsStrict ==
    call.fn = "pixel" =>
        LET r == call.args[1]
            g == call.args[2]
            b == call.args[3]
            sum == r + g + b
            spread == Max3(r, g, b) - Min3(r, g, b) IN
        /\ sum <= 59 => value.isBackground
        /\ (sum >= 60 /\ sum <= 600) => ~value.isBackground
        /\ (sum >= 601 /\ sum <= 720) => (value.isBackground <=> spread <= 19)
        /\ sum >= 721 => value.isBackground

\* A pixel with r+g+b exactly 60: not background.
C21_SixtyIsNotDark ==
    /\ call.fn = "pixel"
    /\ call.args[1] + call.args[2] + call.args[3] = 60
    /\ ~value.isBackground

\* C22: the neutral-gray pixel (128, 128, 128) is design in every
\* component variant: neither a skin rule nor a background rule fires.
C22_NeutralGrayIsDesign ==
    (/\ call.fn = "classification"
     /\ call.args[2] = 128 /\ call.args[3] = 128 /\ call.args[4] = 128)
    => (~value.isSkinTone /\ ~value.isBackground)

\* n is 1.2 x c rounded to a whole number, or 255 when that exceeds 255.
Brightened(c, n) ==
    IF 12 * c >= 2550 THEN n = 255
    ELSE /\ n \in 0..255
         /\ 10 * n - 12 * c <= 5
         /\ 12 * c - 10 * n <= 5

\* C24: after the enhancement pass every pixel classified skin or
\* background has alpha 0, and every design pixel has each colour channel
\* at min(255, 1.2 x its original value, rounded) and its alpha unchanged.
C24_EnhancementPass ==
    call.fn = "pixel" =>
        IF value.isSkinTone \/ value.isBackground
        THEN value.pixel.a = 0
        ELSE /\ Brightened(call.args[1], value.pixel.r)
             /\ Brightened(call.args[2], value.pixel.g)
             /\ Brightened(call.args[3], value.pixel.b)
             /\ value.pixel.a = call.args[4]

\* A half-transparent design pixel: red brightened, blue capped at 255.
C24_DesignPixelBrightened ==
    /\ call.fn = "pixel"
    /\ call.args = <<100, 0, 250, 128>>
    /\ ~value.isSkinTone
    /\ ~value.isBackground
    /\ value.pixel = [r |-> 120, g |-> 0, b |-> 255, a |-> 128]

\* a x b = c x d for natural numbers, decided on the reduced fractions so
\* that no product is formed.
ProductsEqual(a, b, c, d) ==
    IF a = 0 \/ b = 0 \/ c = 0 \/ d = 0
    THEN (a = 0 \/ b = 0) /\ (c = 0 \/ d = 0)
    ELSE /\ a \div Gcd(a, c) = d \div Gcd(b, d)
         /\ b \div Gcd(b, d) = c \div Gcd(a, c)

\* The length 'extent' (by its square) drawn at 'scale' equals the length
\* 'target' (by its square).
ScaledEquals(extentSq, scale, targetSq) ==
    ProductsEqual(extentSq, scale.nailLength.sq, targetSq, scale.height.sq)

\* C25 as stated: the design canvas height times the scale factor equals
\* the target nail's measured tip-base length.
C25_CanvasExtentIsTargetLength ==
    (call.fn = "scale" /\ value.returned) =>
        ScaledEquals(Sq(value.design.canvas.height), value.scale,
                     ApplyNailLength(call.args[4], call.args[5], call.args[6]).sq)

\* C25, amended: the source nail's measured tip-base length (what the
\* design stores as its height) times the scale factor equals the target
\* nail's measured tip-base length.
C25_NailExtentIsTargetLength ==
    (call.fn = "scale" /\ value.returned) =>
        ScaledEquals(ExtractNailLength(call.args[1], call.args[2], call.args[3]).sq,
                     value.scale,
                     ApplyNailLength(call.args[4], call.args[5], call.args[6]).sq)

\* A 200 px nail of the 1000 x 1000 image drawn on an 80 px nail of the
\* 300 x 400 image: scale 80 / 200 of a canvas 300 px high.
C25_ScaledDown ==
    /\ call.fn = "scale"
    /\ value.returned
    /\ value.design.height = [sq |-> 40000, whole |-> 200]
    /\ value.design.canvas.height = 300
    /\ value.scale.nailLength = [sq |-> 6400, whole |-> 80]
    /\ call.args[6].naturalWidth = 300

\* Twice the centre of the copied source window, and twice the composite
\* centre, in tenths of a pixel: 20 of these units are one pixel.
WindowCenterTwice(window) ==
    [x |-> 2 * window.extractX + window.extractWidth,
     y |-> 2 * window.extractY + window.extractHeight]

\* C26: a design extracted and then composited on identical landmarks and
\* image size is drawn where it was taken from: the composite centre is
\* within 1 px of the centre of the source window that was copied, the
\* composite rotation cancels the extraction rotation, and the scale is 1,
\* nails near the image border included.
C26_RoundTripSamePlace ==
    (call.fn = "roundTrip" /\ value.returned /\ value.window.copied) =>
        /\ Abs(WindowCenterTwice(value.window).x - 2 * value.center.x) <= 20
        /\ Abs(WindowCenterTwice(value.window).y - 2 * value.center.y) <= 20
        /\ value.rotation = value.extraction
        /\ value.scale.nailLength = value.scale.height

\* C27: the number reported after an apply equals the number of fingers
\* whose region of the result image was modified in that apply, and never
\* exceeds the number of stored designs.
C27_ReportedCountIsModifiedCount ==
    call.fn = "designsApplied" =>
        /\ value.designsApplied = Cardinality(value.modified)
        /\ value.designsApplied <= Len(call.args[3])

\* C28: each apply rebuilds the result from the target image alone: when
\* the apply handler encodes the result canvas, processedImage becomes the
\* image the apply was started for with the designs drawn in this apply and
\* nothing else, whatever processedImage held before.
C28_ResultRebuiltFromTarget ==
    [][\A results \in HandsResults :
        (/\ processedImage' # processedImage
         /\ onResults.kind = "apply"
         /\ DetectorResult(results))
        => processedImage' =
             [base  |-> onResults.image,
              drawn |-> IF results.hands > 0
                        THEN DrawnOn(results.hand, onResults.designs)
                        ELSE {}]]_vars

\* A result with designs drawn is shown while a later apply is still with
\* the detector: its handler will replace the result.
C28_ResultAboutToBeReplaced ==
    /\ processedImage # NoImage
    /\ processedImage.drawn # {}
    /\ currentStep = "apply"
    /\ onResults.kind = "apply"
    /\ inflight # <<>>

\* A step of the extraction handler that stores the designs it extracted.
ExtractionStored ==
    /\ onResults.kind = "extract"
    /\ \E results \in HandsResults :
        /\ results.hands > 0
        /\ Len(processHandLandmarks(results)) > 0
        /\ extractedDesigns' = processHandLandmarks(results)
        /\ DetectorResult(results)

\* A step in which the detector finishes a request while the apply handler
\* is the one registered.
ApplyHandlerCalled ==
    /\ onResults.kind = "apply"
    /\ inflight # <<>>
    /\ inflight' = Tail(inflight)
    /\ onResults' = onResults

\* C29: no step of the apply pass changes extractedDesigns or a stored
\* design; extractedDesigns is written only by a successful extraction and
\* by reset.
C29_DesignsReadOnlyInApply ==
    [][/\ extractedDesigns' # extractedDesigns => (ExtractionStored \/ handleReset)
       /\ ApplyHandlerCalled => extractedDesigns' = extractedDesigns]_vars

\* An apply has drawn designs and the stored designs are all still there.
C29_AppliedAndStillStored ==
    /\ currentStep = "apply"
    /\ processedImage.drawn # {}
    /\ Len(extractedDesigns) = Len(FINGER_LANDMARKS)
    /\ inflight = <<>>
    /\ pending = <<>>

\* What a file input does with a file: above 10 * 1024 * 1024 bytes an
\* error is reported, no reader is started and the images, the designs and
\* the step stay as they are; otherwise a reader is started on the file.
SizeChecked(file, reader) ==
    IF file.size > 10 * 1024 * 1024
    THEN /\ error' = Reported
         /\ pending' = pending
         /\ UNCHANGED <<postImage, userImage, processedImage,
                        extractedDesigns, currentStep>>
    ELSE /\ Len(pending') = Len(pending) + 1
         /\ pending'[Len(pending')].kind = reader
         /\ pending'[Len(pending')].image = file.name
         /\ error' = error

\* C30: a selected file larger than 10 * 1024 * 1024 bytes is rejected with
\* an error and leaves postImage, userImage, processedImage,
\* extractedDesigns and currentStep unchanged, and a file of exactly that
\* size is accepted, in the design-image upload and in the hand-photo
\* upload.
C30_OversizeRejected ==
    [][/\ \A file \in PostFiles :
            handlePostImageUpload(file) => SizeChecked(file, "postRead")
       /\ \A file \in UserFiles :
            handleUserImageUpload(file) => SizeChecked(file, "userRead")]_vars

\* Files of exactly 10 * 1024 * 1024 bytes went through both uploads.
C30_ExactSizeAccepted ==
    /\ postImage = "p1"
    /\ userImage = "u1"
    /\ FileNamed("p1").size = 10 * 1024 * 1024
    /\ FileNamed("u1").size = 10 * 1024 * 1024

\* Sharing is unsupported: navigator.share is missing, or navigator.canShare
\* is missing or refuses the file.
SharingUnsupported(env) == ~env.share \/ env.canShare # "true"

\* The share attempt throws: the fetch of the image fails, or the share
\* promise of a supporting platform rejects.
ShareThrows(env) ==
    \/ env.fetch = "throws"
    \/ env.share /\ env.canShare = "true" /\ env.shared = "rejects"

\* C31: if platform sharing is unsupported or the share attempt throws,
\* handleShare triggers the local save of the processed image; when
\* processedImage is null neither share nor save is attempted.
C31_ShareFallsBackToSave ==
    call.fn = "handleShare" =>
        LET image == call.args[1]
            env == call.args[2] IN
        /\ (image # NoImage /\ (SharingUnsupported(env) \/ ShareThrows(env)))
              => value.saved = <<image>>
        /\ image = NoImage
              => (~value.fetched /\ ~value.shareCalled /\ value.saved = <<>>)

\* The platform's share was called, its promise rejected, and the image was
\* saved locally.
C31_RejectedShareSaved ==
    /\ call.fn = "handleShare"
    /\ call.args[1] # NoImage
    /\ call.args[2].shared = "rejects"
    /\ value.shareCalled
    /\ value.saved = <<call.args[1]>>

\* C32: every detector result is processed by the handler registered for
\* the request that produced it: the handler called with the landmarks of
\* an image is the one registered for that image, so landmarks are only
\* ever used on the image they were detected in.
C32_ResultGoesToItsOwnHandler ==
    [][\A results \in HandsResults :
         (/\ inflight # <<>>
          /\ DetectorResult(results))
         => inflight[1].image = onResults.image]_vars

\* C33: the source rectangle copied by extractSingleNailDesign is exactly
\* the intersection of the canvas-sized window centred on the nail centre
\* with the image rectangle, and it is drawn at 1:1 scale into the
\* corresponding part of the buffer: a window clipped by an image edge is
\* neither shifted nor stretched.  (Tenths of a pixel.)
C33_CopyIsClippedWindow ==
    (call.fn = "drawImage" /\ value.returned /\ value.source.copied) =>
        LET image == call.args[3]
            left == value.center.x - 5 * value.canvas.width
            top == value.center.y - 5 * value.canvas.height
            right == value.center.x + 5 * value.canvas.width
            bottom == value.center.y + 5 * value.canvas.height
            source == value.source
            destination == value.destination IN
        /\ source.extractX = Max(0, left)
        /\ source.extractY = Max(0, top)
        /\ source.extractX + source.extractWidth = Min(10 * image.naturalWidth, right)
        /\ source.extractY + source.extractHeight = Min(10 * image.naturalHeight, bottom)
        /\ destination.width = source.extractWidth
        /\ destination.height = source.extractHeight
        /\ destination.x = source.extractX - left
        /\ destination.y = source.extractY - top

\* C34: whenever currentStep is "capture" or "apply", extractedDesigns is
\* not empty.
C34_DesignsWhileCapturingOrApplying ==
    currentStep \in {"capture", "apply"} => Len(extractedDesigns) > 0

\* C35: whenever currentStep is "apply", processedImage is not null.
C35_ResultViewHasImage ==
    currentStep = "apply" => processedImage # NoImage

\* C36: currentStep never takes the value "extract".
C36_NeverExtractStep == currentStep # "extract"

\* An extraction has just succeeded and the step is already "capture".
C36_ExtractedAndCapturing ==
    /\ currentStep = "capture"
    /\ statusMessage.msg = "Successfully extracted nail designs!"
    /\ Len(extractedDesigns) > 0

\* C37: when an extraction succeeds and currentStep advances to "capture",
\* error is null.
C37_NoErrorBesideSuccess ==
    [][(currentStep # "capture" /\ currentStep' = "capture") => error' = Null]_vars

\* C38: every design kept in extractedDesigns has at least one pixel with
\* non-zero alpha; a crop whose pixels are all classified skin or
\* background is not stored.
C38_StoredDesignsAreVisible ==
    call.fn = "designsApplied" =>
        \A k \in 1..Len(call.args[3]) : call.args[3][k].canvas.a > 0

\* C39: after each finger is composited the result context's transform,
\* blend mode and opacity are back to the values they had before that
\* finger, so every finger is drawn under its own translate, rotate and
\* scale only, and the context is at its defaults when the canvas is encoded.
C39_ContextRestoredPerFinger ==
    call.fn = "compositeLoop" =>
        \A k \in 1..Len(value) :
            /\ value[k].after.transform = value[k].before.transform
            /\ value[k].after.globalCompositeOperation =
                   value[k].before.globalCompositeOperation
            /\ value[k].after.globalAlpha = value[k].before.globalAlpha
            /\ value[k].drawnWith.transform =
                   << <<"translate", value[k].finger>>, <<"rotate", value[k].finger>>,
                      <<"scale", value[k].finger>> >>
            /\ value[k].after.transform = <<>>
            /\ value[k].after.globalCompositeOperation = "source-over"
            /\ value[k].after.globalAlpha = 10

\* All five fingers were composited, each under 'multiply' at 0.8.
C39_FiveFingersComposited ==
    /\ call.fn = "compositeLoop"
    /\ Len(value) = Len(FINGER_LANDMARKS)
    /\ \A k \in 1..Len(value) :
          /\ value[k].drawnWith.globalCompositeOperation = "multiply"
          /\ value[k].drawnWith.globalAlpha = 8

====
